---- MODULE Spec2Model ----
(***************************************************************************)
(* The cursor-delta overlay of pytrendline: the two implementations of the *)
(* "delta vs. previous resistance / support" readout,                      *)
(*   cursor_delta_addon.py        (_mk_src, build_sources,                 *)
(*                                 attach_cursor_panel: yPrevAtDate,       *)
(*                                 pctDelta)                               *)
(*   pytrendline/bokeh_cursor_deltas.py (plot_with_prev_deltas: prevY, pct)*)
(* Python builds the two column sources once; the CustomJS callback runs   *)
(* on every mousemove event.                                               *)
(*                                                                         *)
(* Numbers are IEEE doubles in the program.  Here a finite number is an    *)
(* exact rational n/d in lowest terms, and NaN, +Infinity and -Infinity    *)
(* are values of their own, with the IEEE rules for them.  Rounding error  *)
(* and negative zero are not modelled.                                     *)
(***************************************************************************)
EXTENDS Integers, Sequences, FiniteSets, TLC

(***************************************************************************)
(* Bounds of the model.                                                    *)
(***************************************************************************)
\* the longest list of raw trend lines handed to the build
MaxSegs == 2
\* the callbacks handled are counted up to this many
MaxHandled == 2

(***************************************************************************)
(* Values.  k is "num" (n/d), "nan", "inf" (n is the sign), "null" (the JS *)
(* null) or "str" (a Python object float() cannot convert).                *)
(***************************************************************************)
Abs(i) == IF i < 0 THEN -i ELSE i

RECURSIVE GCD(_, _)
GCD(a, b) == IF b = 0 THEN a ELSE GCD(b, a % b)

Rat(n, d) ==
  LET g == GCD(Abs(n), Abs(d))
      s == IF d < 0 THEN -1 ELSE 1
  IN  [k |-> "num", n |-> (s * n) \div g, d |-> (s * d) \div g]

Num(i)   == [k |-> "num", n |-> i, d |-> 1]
NaN      == [k |-> "nan", n |-> 0, d |-> 1]
Infinity == [k |-> "inf", n |-> 1, d |-> 1]
NegInfinity == [k |-> "inf", n |-> -1, d |-> 1]
null     == [k |-> "null", n |-> 0, d |-> 1]
BadValue == [k |-> "str", n |-> 0, d |-> 1]

Sgn(v) == IF v.n > 0 THEN 1 ELSE IF v.n < 0 THEN -1 ELSE 0
Inf(s) == IF s < 0 THEN NegInfinity ELSE Infinity
Neg(v) == IF v.k = "nan" THEN NaN ELSE [v EXCEPT !.n = -v.n]

Add(a, b) ==
  IF a.k = "nan" \/ b.k = "nan" THEN NaN
  ELSE IF a.k = "inf" /\ b.k = "inf" THEN (IF a.n = b.n THEN a ELSE NaN)
  ELSE IF a.k = "inf" THEN a
  ELSE IF b.k = "inf" THEN b
  ELSE Rat(a.n * b.d + b.n * a.d, a.d * b.d)

Sub(a, b) == Add(a, Neg(b))

Mul(a, b) ==
  IF a.k = "nan" \/ b.k = "nan" THEN NaN
  ELSE IF a.k = "inf" \/ b.k = "inf"
       THEN (IF Sgn(a) = 0 \/ Sgn(b) = 0 THEN NaN ELSE Inf(Sgn(a) * Sgn(b)))
  ELSE Rat(a.n * b.n, a.d * b.d)

\* IEEE division, as JS performs it: x/0 is an infinity, 0/0 is NaN
Div(a, b) ==
  IF a.k = "nan" \/ b.k = "nan" THEN NaN
  ELSE IF a.k = "inf" /\ b.k = "inf" THEN NaN
  ELSE IF a.k = "inf" THEN Inf(IF Sgn(b) < 0 THEN -a.n ELSE a.n)
  ELSE IF b.k = "inf" THEN Num(0)
  ELSE IF b.n = 0 THEN (IF a.n = 0 THEN NaN ELSE Inf(Sgn(a)))
  ELSE Rat(a.n * b.d, a.d * b.n)

\* a < b on numbers; every comparison with NaN is false
Lt(a, b) ==
  IF a.k = "nan" \/ b.k = "nan" THEN FALSE
  ELSE IF a.k = "inf" THEN a.n < 0 /\ ~(b.k = "inf" /\ b.n < 0)
  ELSE IF b.k = "inf" THEN b.n > 0
  ELSE a.n * b.d < b.n * a.d

Gt(a, b) == Lt(b, a)
Ge(a, b) == a.k # "nan" /\ b.k # "nan" /\ ~Lt(a, b)
Le(a, b) == Ge(b, a)

\* the JS global isFinite: its argument goes through Number(), and
\* Number(null) is 0
isFinite(v) == v.k \in {"num", "null"}

(***************************************************************************)
(* Number.prototype.toFixed(2): "NaN", "Infinity", "-Infinity", or the     *)
(* decimal with two fraction digits, the nearest one and the larger on a   *)
(* tie, carrying the sign of the number itself.                            *)
(***************************************************************************)
Digit(i) == <<"0", "1", "2", "3", "4", "5", "6", "7", "8", "9">>[i + 1]

RECURSIVE NatStr(_)
NatStr(i) == IF i < 10 THEN Digit(i) ELSE NatStr(i \div 10) \o Digit(i % 10)

toFixed2(p) ==
  IF p.k = "nan" THEN "NaN"
  ELSE IF p.k = "inf" THEN (IF p.n < 0 THEN "-Infinity" ELSE "Infinity")
  ELSE LET n == (2 * 100 * Abs(p.n) + p.d) \div (2 * p.d)
       IN  (IF p.n < 0 THEN "-" ELSE "")
             \o NatStr(n \div 100) \o "." \o Digit((n \div 10) % 10) \o Digit(n % 10)

(***************************************************************************)
(* The delta calculators.  The em dash the code returns for "unavailable"  *)
(* is written "--".  `evaluated' records whether the percentage formula    *)
(* (the division by yref) was evaluated.                                   *)
(***************************************************************************)
Unavailable == "--"

percent(y, yref) == Mul(Div(Sub(y, yref), yref), Num(100))

\* the guard without its test for zero
pctDelta_NoZeroGuard(y, yref) ==
  IF yref = null \/ ~isFinite(yref)
  THEN [text |-> Unavailable, evaluated |-> FALSE]
  ELSE LET p == percent(y, yref)
           sign == IF Ge(p, Num(0)) THEN "+" ELSE ""
       IN  [text |-> sign \o toFixed2(p) \o "%", evaluated |-> TRUE]

\* cursor_delta_addon.py, the callback's pctDelta
pctDelta(y, yref) ==
  IF yref = null \/ ~isFinite(yref) \/ yref = Num(0)
  THEN [text |-> Unavailable, evaluated |-> FALSE]
  ELSE LET p == percent(y, yref)
           sign == IF Ge(p, Num(0)) THEN "+" ELSE ""
       IN  [text |-> sign \o toFixed2(p) \o "%", evaluated |-> TRUE]

\* bokeh_cursor_deltas.py, the callback's pct
pct(y, yref) ==
  IF yref = null \/ ~isFinite(yref) \/ yref = Num(0)
  THEN [text |-> Unavailable, evaluated |-> FALSE]
  ELSE LET p == percent(y, yref)
           sign == IF Gt(p, Num(0)) THEN "+" ELSE ""
       IN  [text |-> sign \o toFixed2(p) \o "%", evaluated |-> TRUE]

(***************************************************************************)
(* The Python side.  A raw timestamp is whatever pd.to_datetime is given:  *)
(* ok with its nanoseconds since the epoch, or not convertible.  A raw     *)
(* price is a value float() is given.  A raw trend line is                 *)
(* [kind, x0, y0, x1, y1].                                                 *)
(***************************************************************************)
\* 10**6, the nanoseconds of a millisecond
NsPerMs == 1000000

TsMs(ms)  == [ok |-> TRUE, ns |-> ms * NsPerMs]
TsNs(ns)  == [ok |-> TRUE, ns |-> ns]
BadTs     == [ok |-> FALSE, ns |-> 0]

\* int(pd.to_datetime(ts).value // 10**6), for a timestamp that converts
_to_ms(ts) == ts.ns \div NsPerMs

\* pd.to_datetime(ts) raises
TsRaises(ts) == ~ts.ok
\* float(y) raises
FloatRaises(y) == y.k \notin {"num", "nan", "inf"}

\* one compiled row of a column source; m and b are Python floats,
\* x0ms, x1ms and x_end Python ints
\* the row with its intercept taken at the end anchor
Row_InterceptAtEnd(x0ms, y0, x1ms, y1) ==
  LET m == Div(Sub(y1, y0), Num(x1ms - x0ms))
      b == Sub(y0, Mul(m, Num(x1ms)))
  IN  [x0ms |-> x0ms, y0 |-> y0, x1ms |-> x1ms, y1 |-> y1,
       m |-> m, b |-> b, x_end |-> IF x0ms > x1ms THEN x0ms ELSE x1ms]

\* the row keyed by its end anchor's time instead of the later anchor's
Row_KeyIsEndAnchor(x0ms, y0, x1ms, y1) ==
  LET m == Div(Sub(y1, y0), Num(x1ms - x0ms))
      b == Sub(y0, Mul(m, Num(x0ms)))
  IN  [x0ms |-> x0ms, y0 |-> y0, x1ms |-> x1ms, y1 |-> y1,
       m |-> m, b |-> b, x_end |-> x1ms]

Row(x0ms, y0, x1ms, y1) ==
  LET m == Div(Sub(y1, y0), Num(x1ms - x0ms))
      b == Sub(y0, Mul(m, Num(x0ms)))
  IN  [x0ms |-> x0ms, y0 |-> y0, x1ms |-> x1ms, y1 |-> y1,
       m |-> m, b |-> b, x_end |-> IF x0ms > x1ms THEN x0ms ELSE x1ms]

Raised == [raised |-> TRUE, rows |-> <<>>]

\* the loop of _mk_src from record i on: the timestamps are converted
\* first, a vertical is skipped before its prices are touched
RECURSIVE MkSrcLoop(_, _, _)
\* the loop skipping every line that does not run forward in time
MkSrcLoop_SkipsEndFirst(records, i, out) ==
  IF i > Len(records) THEN [raised |-> FALSE, rows |-> out]
  ELSE LET r == records[i] IN
       IF TsRaises(r.x0) \/ TsRaises(r.x1) THEN Raised
       ELSE IF _to_ms(r.x1) <= _to_ms(r.x0) THEN MkSrcLoop(records, i + 1, out)
       ELSE IF FloatRaises(r.y1) \/ FloatRaises(r.y0) THEN Raised
       ELSE MkSrcLoop(records, i + 1,
                      Append(out, Row(_to_ms(r.x0), r.y0, _to_ms(r.x1), r.y1)))

MkSrcLoop(records, i, out) ==
  IF i > Len(records) THEN [raised |-> FALSE, rows |-> out]
  ELSE LET r == records[i] IN
       IF TsRaises(r.x0) \/ TsRaises(r.x1) THEN Raised
       ELSE IF _to_ms(r.x1) = _to_ms(r.x0) THEN MkSrcLoop(records, i + 1, out)
       ELSE IF FloatRaises(r.y1) \/ FloatRaises(r.y0) THEN Raised
       ELSE MkSrcLoop(records, i + 1,
                      Append(out, Row(_to_ms(r.x0), r.y0, _to_ms(r.x1), r.y1)))

\* cursor_delta_addon.py, _mk_src
_mk_src(records) ==
  IF records = <<>> THEN [raised |-> FALSE, rows |-> <<>>]
  ELSE MkSrcLoop(records, 1, <<>>)

\* the loop of plot_with_prev_deltas from trend line i on: timestamps and
\* prices are all converted before the vertical test
RECURSIVE PlotLoop(_, _, _, _)
PlotLoop(tls, i, res_lines, sup_lines) ==
  IF i > Len(tls) THEN [raised |-> FALSE, res |-> res_lines, sup |-> sup_lines]
  ELSE LET tl == tls[i] IN
       IF TsRaises(tl.x0) \/ TsRaises(tl.x1)
          \/ FloatRaises(tl.y0) \/ FloatRaises(tl.y1)
       THEN [raised |-> TRUE, res |-> <<>>, sup |-> <<>>]
       ELSE IF _to_ms(tl.x1) = _to_ms(tl.x0)
       THEN PlotLoop(tls, i + 1, res_lines, sup_lines)
       ELSE LET rec == Row(_to_ms(tl.x0), tl.y0, _to_ms(tl.x1), tl.y1) IN
            IF tl.kind = "res"
            THEN PlotLoop(tls, i + 1, Append(res_lines, rec), sup_lines)
            ELSE PlotLoop(tls, i + 1, res_lines, Append(sup_lines, rec))

\* the records build_sources is given for one category
OfKind(tls, kind) == SelectSeq(tls, LAMBDA tl : tl.kind = kind)

\* cursor_delta_addon.py, build_sources: the resistance source first
build_sources(tls) ==
  LET r == _mk_src(OfKind(tls, "res")) IN
  IF r.raised THEN [raised |-> TRUE, res |-> <<>>, sup |-> <<>>]
  ELSE LET s == _mk_src(OfKind(tls, "sup")) IN
       IF s.raised THEN [raised |-> TRUE, res |-> <<>>, sup |-> <<>>]
       ELSE [raised |-> FALSE, res |-> r.rows, sup |-> s.rows]

(***************************************************************************)
(* The JavaScript side: the lookups of the two callbacks.                  *)
(***************************************************************************)
\* cursor_delta_addon.py, the loop of yPrevAtDate from row i on (1-based)
RECURSIVE yPrevLoop(_, _, _, _, _)
\* the loop letting a row that ties with the best replace it
yPrevLoop_LastWins(src, dateMs, i, best, yAt) ==
  IF i > Len(src) THEN yAt
  ELSE LET xe == Num(src[i].x_end) IN
       IF Ge(dateMs, xe) /\ Ge(xe, best)
       THEN yPrevLoop(src, dateMs, i + 1, xe,
                      Add(Mul(src[i].m, dateMs), src[i].b))
       ELSE yPrevLoop(src, dateMs, i + 1, best, yAt)

yPrevLoop(src, dateMs, i, best, yAt) ==
  IF i > Len(src) THEN yAt
  ELSE LET xe == Num(src[i].x_end) IN
       IF Ge(dateMs, xe) /\ Gt(xe, best)
       THEN yPrevLoop(src, dateMs, i + 1, xe,
                      Add(Mul(src[i].m, dateMs), src[i].b))
       ELSE yPrevLoop(src, dateMs, i + 1, best, yAt)

yPrevAtDate(src, dateMs) == yPrevLoop(src, dateMs, 1, NegInfinity, null)

\* bokeh_cursor_deltas.py, the loop of prevY from row i on (1-based)
RECURSIVE prevYLoop(_, _, _, _, _)
\* the loop with an exclusive bound: a row ending at x is not eligible
prevYLoop_Exclusive(src, x, i, best, yAt) ==
  IF i > Len(src) THEN yAt
  ELSE LET x_end == Num(src[i].x_end) IN
       IF Gt(x, x_end) /\ Gt(x_end, best)
       THEN prevYLoop(src, x, i + 1, x_end, Add(Mul(src[i].m, x), src[i].b))
       ELSE prevYLoop(src, x, i + 1, best, yAt)

prevYLoop(src, x, i, best, yAt) ==
  IF i > Len(src) THEN yAt
  ELSE LET x_end == Num(src[i].x_end) IN
       IF Ge(x, x_end) /\ Gt(x_end, best)
       THEN prevYLoop(src, x, i + 1, x_end, Add(Mul(src[i].m, x), src[i].b))
       ELSE prevYLoop(src, x, i + 1, best, yAt)

prevY(src, x) == prevYLoop(src, x, 1, NegInfinity, null)

\* Math.round of a finite number: the nearest integer, the larger on a tie
MathRound(v) == (2 * v.n + v.d) \div (2 * v.d)

(***************************************************************************)
(* State.                                                                  *)
(*   impl        which of the two programs runs: "addon"                   *)
(*               (cursor_delta_addon.py) or "plot" (bokeh_cursor_deltas.py)*)
(*   trendlines  the raw trend lines the caller hands over                 *)
(*   candles     the candle source the addon's callback reads              *)
(*   pc          "start", "built" (sources and callback in place) or       *)
(*               "raised" (the build ended in an exception)                *)
(*   res_src, sup_src  the rows of the two column sources                  *)
(*   ev          cb_obj of the last mousemove event                        *)
(*   yRes, ySup  the callback's locals in its last invocation              *)
(*   div         what the panel shows                                      *)
(*   args, ret   a delta calculator called on its own: arguments, result   *)
(*   handled     how many events the callback has handled so far (the      *)
(*               count stops at MaxHandled); read by no operation          *)
(***************************************************************************)
VARIABLES impl, trendlines, candles, pc, res_src, sup_src, ev, yRes, ySup,
          div, args, ret, handled

vars == <<impl, trendlines, candles, pc, res_src, sup_src, ev, yRes, ySup,
          div, args, ret, handled>>

undefined == [k |-> "undefined", n |-> 0, d |-> 1]
NoEvent   == [x |-> undefined, y |-> undefined]
NoDiv     == [shown |-> "none", close |-> "", res |-> "", sup |-> ""]
\* the Div as constructed, and as the addon resets it off the candles
Placeholder == [shown |-> "placeholder", close |-> "", res |-> "", sup |-> ""]
NoArgs    == [y |-> undefined, yref |-> undefined]
NoRet     == [fn |-> "", text |-> "", evaluated |-> FALSE]

(***************************************************************************)
(* Inputs.  Times are milliseconds, prices plain numbers.                  *)
(***************************************************************************)
Kinds     == {"res", "sup"}
QueryMs   == {80, 90, 100, 105}
CursorYs  == {40, 52}
CandleMs  == <<80, 90, 100, 105>>
Closes    == {40, 52}
CursorXs  == {Num(-1), Num(0), Num(1), Rat(3, 2), Num(3), Num(4)}

\* well-formed lines <<x0, y0, x1, y1>>: flat, rising and falling ones, two
\* pairs that end together, a vertical one, and one given end first
SampleLines ==
  { <<TsMs(80),  Num(40), TsMs(90),  Num(40)>>,
    <<TsMs(90),  Num(50), TsMs(100), Num(50)>>,
    <<TsMs(80),  Num(40), TsMs(100), Num(50)>>,
    <<TsMs(80),  Num(50), TsMs(90),  Num(40)>>,
    <<TsMs(90),  Num(50), TsMs(90),  Num(40)>>,
    <<TsMs(100), Num(50), TsMs(90),  Num(40)>> }

\* lines the build has to cope with: two timestamps of one millisecond, a
\* timestamp or a price that does not convert, a vertical with such a price
OddLines ==
  { <<TsMs(80),  Num(40), TsNs(80 * NsPerMs + 500000), Num(50)>>,
    <<BadTs,     Num(40), TsMs(90),  Num(40)>>,
    <<TsMs(80),  BadValue, TsMs(100), Num(50)>>,
    <<TsMs(90),  Num(50), TsMs(90),  BadValue>> }

Segs(lines) ==
  {[kind |-> k, x0 |-> l[1], y0 |-> l[2], x1 |-> l[3], y1 |-> l[4]] :
     k \in Kinds, l \in lines}

RawSegs == Segs(SampleLines)

SeqsUpTo(S, n) == UNION {[1..k -> S] : k \in 0..n}

CandleData ==
  {[i \in 1..Len(CandleMs) |-> [Date |-> Num(CandleMs[i]), Close |-> Num(c)]] :
     c \in Closes}

Init ==
  /\ impl \in {"addon", "plot"}
  /\ trendlines \in SeqsUpTo(RawSegs, MaxSegs)
  /\ candles \in (IF impl = "addon" THEN CandleData ELSE {<<>>})
  /\ pc = "start"
  /\ res_src = <<>> /\ sup_src = <<>>
  /\ ev = NoEvent /\ yRes = undefined /\ ySup = undefined
  /\ div = NoDiv
  /\ args = NoArgs /\ ret = NoRet
  /\ handled = 0

(***************************************************************************)
(* The build.                                                              *)
(***************************************************************************)
Built(r) ==
  /\ pc' = IF r.raised THEN "raised" ELSE "built"
  /\ res_src' = r.res
  /\ sup_src' = r.sup
  /\ div' = IF r.raised THEN NoDiv ELSE Placeholder
  /\ UNCHANGED <<impl, trendlines, candles, ev, yRes, ySup, args, ret, handled>>

\* cursor_delta_addon.py: build_sources, then attach_cursor_panel
BuildSources ==
  /\ impl = "addon" /\ pc = "start"
  /\ Built(build_sources(trendlines))

\* bokeh_cursor_deltas.py: plot_with_prev_deltas up to show()
PlotWithPrevDeltas ==
  /\ impl = "plot" /\ pc = "start"
  /\ Built(PlotLoop(trendlines, 1, <<>>, <<>>))

(***************************************************************************)
(* The callbacks.                                                          *)
(***************************************************************************)
\* one more event has been handled
OneMoreHandled == handled' = IF handled < MaxHandled THEN handled + 1 ELSE handled

\* the callback leaving the panel as it was when the cursor is off the
\* candles, instead of resetting it
AddonMouseMove_KeepsLastReadout ==
  /\ impl = "addon" /\ pc = "built"
  /\ \E x \in CursorXs, y \in {Num(v) : v \in CursorYs} :
       LET candleIdx == MathRound(x) IN
       /\ ev' = [x |-> x, y |-> y]
       /\ IF candleIdx < 0 \/ candleIdx >= Len(candles)
          THEN /\ div' = div
               /\ yRes' = undefined /\ ySup' = undefined
          ELSE LET candleDate  == candles[candleIdx + 1].Date
                   candleClose == candles[candleIdx + 1].Close
                   r == yPrevAtDate(res_src, candleDate)
                   s == yPrevAtDate(sup_src, candleDate)
               IN  /\ yRes' = r /\ ySup' = s
                   /\ div' = [shown |-> "readout",
                              close |-> toFixed2(candleClose),
                              res |-> pctDelta(candleClose, r).text,
                              sup |-> pctDelta(candleClose, s).text]
  /\ OneMoreHandled
  /\ UNCHANGED <<impl, trendlines, candles, pc, res_src, sup_src, args, ret>>

\* the callback dropping from a source the rows that end after the query
AddonMouseMove_PrunesRows ==
  /\ impl = "addon" /\ pc = "built"
  /\ \E x \in CursorXs, y \in {Num(v) : v \in CursorYs} :
       LET candleIdx == MathRound(x) IN
       /\ ev' = [x |-> x, y |-> y]
       /\ IF candleIdx < 0 \/ candleIdx >= Len(candles)
          THEN /\ div' = Placeholder
               /\ yRes' = undefined /\ ySup' = undefined
               /\ UNCHANGED <<res_src, sup_src>>
          ELSE LET candleDate  == candles[candleIdx + 1].Date
                   candleClose == candles[candleIdx + 1].Close
                   r == yPrevAtDate(res_src, candleDate)
                   s == yPrevAtDate(sup_src, candleDate)
               IN  /\ yRes' = r /\ ySup' = s
                   /\ div' = [shown |-> "readout",
                              close |-> toFixed2(candleClose),
                              res |-> pctDelta(candleClose, r).text,
                              sup |-> pctDelta(candleClose, s).text]
                   /\ res_src' = SelectSeq(res_src,
                                   LAMBDA row : Ge(candleDate, Num(row.x_end)))
                   /\ sup_src' = SelectSeq(sup_src,
                                   LAMBDA row : Ge(candleDate, Num(row.x_end)))
  /\ OneMoreHandled
  /\ UNCHANGED <<impl, trendlines, candles, pc, args, ret>>

\* the callback taking the observed value from the cursor's y, not the
\* candle's close
AddonMouseMove_ObservesCursorY ==
  /\ impl = "addon" /\ pc = "built"
  /\ \E x \in CursorXs, y \in {Num(v) : v \in CursorYs} :
       LET candleIdx == MathRound(x) IN
       /\ ev' = [x |-> x, y |-> y]
       /\ IF candleIdx < 0 \/ candleIdx >= Len(candles)
          THEN /\ div' = Placeholder
               /\ yRes' = undefined /\ ySup' = undefined
          ELSE LET candleDate  == candles[candleIdx + 1].Date
                   candleClose == candles[candleIdx + 1].Close
                   r == yPrevAtDate(res_src, candleDate)
                   s == yPrevAtDate(sup_src, candleDate)
               IN  /\ yRes' = r /\ ySup' = s
                   /\ div' = [shown |-> "readout",
                              close |-> toFixed2(candleClose),
                              res |-> pctDelta(y, r).text,
                              sup |-> pctDelta(y, s).text]
  /\ OneMoreHandled
  /\ UNCHANGED <<impl, trendlines, candles, pc, res_src, sup_src, args, ret>>

\* cursor_delta_addon.py: the CustomJS callback of attach_cursor_panel
AddonMouseMove ==
  /\ impl = "addon" /\ pc = "built"
  /\ \E x \in CursorXs, y \in {Num(v) : v \in CursorYs} :
       LET candleIdx == MathRound(x) IN
       /\ ev' = [x |-> x, y |-> y]
       /\ IF candleIdx < 0 \/ candleIdx >= Len(candles)
          THEN /\ div' = Placeholder
               /\ yRes' = undefined /\ ySup' = undefined
          ELSE LET candleDate  == candles[candleIdx + 1].Date
                   candleClose == candles[candleIdx + 1].Close
                   r == yPrevAtDate(res_src, candleDate)
                   s == yPrevAtDate(sup_src, candleDate)
               IN  /\ yRes' = r /\ ySup' = s
                   /\ div' = [shown |-> "readout",
                              close |-> toFixed2(candleClose),
                              res |-> pctDelta(candleClose, r).text,
                              sup |-> pctDelta(candleClose, s).text]
  /\ OneMoreHandled
  /\ UNCHANGED <<impl, trendlines, candles, pc, res_src, sup_src, args, ret>>

\* the callback reading each category from the other one's source
PlotMouseMove_Swapped ==
  /\ impl = "plot" /\ pc = "built"
  /\ \E x \in {Num(t) : t \in QueryMs}, y \in {Num(v) : v \in CursorYs} :
       LET r == prevY(sup_src, x)
           s == prevY(res_src, x)
       IN  /\ ev' = [x |-> x, y |-> y]
           /\ yRes' = r /\ ySup' = s
           /\ div' = [shown |-> "readout", close |-> "",
                      res |-> pct(y, r).text, sup |-> pct(y, s).text]
  /\ OneMoreHandled
  /\ UNCHANGED <<impl, trendlines, candles, pc, res_src, sup_src, args, ret>>

\* bokeh_cursor_deltas.py: the CustomJS callback of plot_with_prev_deltas
PlotMouseMove ==
  /\ impl = "plot" /\ pc = "built"
  /\ \E x \in {Num(t) : t \in QueryMs}, y \in {Num(v) : v \in CursorYs} :
       LET r == prevY(res_src, x)
           s == prevY(sup_src, x)
       IN  /\ ev' = [x |-> x, y |-> y]
           /\ yRes' = r /\ ySup' = s
           /\ div' = [shown |-> "readout", close |-> "",
                      res |-> pct(y, r).text, sup |-> pct(y, s).text]
  /\ OneMoreHandled
  /\ UNCHANGED <<impl, trendlines, candles, pc, res_src, sup_src, args, ret>>

Next == BuildSources \/ PlotWithPrevDeltas \/ AddonMouseMove \/ PlotMouseMove

Spec == Init /\ [][Next]_vars

(***************************************************************************)
(* The build on its own, over lines of every sort.                         *)
(***************************************************************************)
InitCompile ==
  /\ impl \in {"addon", "plot"}
  /\ trendlines \in SeqsUpTo(Segs(SampleLines \cup OddLines), MaxSegs)
  /\ candles = <<>>
  /\ pc = "start"
  /\ res_src = <<>> /\ sup_src = <<>>
  /\ ev = NoEvent /\ yRes = undefined /\ ySup = undefined
  /\ div = NoDiv
  /\ args = NoArgs /\ ret = NoRet
  /\ handled = 0

NextCompile == BuildSources \/ PlotWithPrevDeltas

SpecCompile == InitCompile /\ [][NextCompile]_vars

(***************************************************************************)
(* The delta calculators on their own, over every sort of number.          *)
(***************************************************************************)
Observed ==
  {Num(110), Num(90), Num(100), Num(52), Num(0), Num(-5), Num(1), Num(99999),
   NaN, Infinity, NegInfinity}
References ==
  {null, NaN, Infinity, NegInfinity, Num(0), Num(100), Num(-100), Num(50),
   Num(40), Num(3), Num(100000)}

InitDelta ==
  /\ impl = "none" /\ trendlines = <<>> /\ candles = <<>>
  /\ pc = "start"
  /\ res_src = <<>> /\ sup_src = <<>>
  /\ ev = NoEvent /\ yRes = undefined /\ ySup = undefined
  /\ div = NoDiv
  /\ args \in [y : Observed, yref : References]
  /\ ret = NoRet
  /\ handled = 0

Returned(fn, r) ==
  /\ ret' = [fn |-> fn, text |-> r.text, evaluated |-> r.evaluated]
  /\ UNCHANGED <<impl, trendlines, candles, pc, res_src, sup_src, ev, yRes,
                 ySup, div, args, handled>>

CallPctDelta == args # NoArgs /\ ret = NoRet /\ Returned("pctDelta", pctDelta(args.y, args.yref))

CallPct == args # NoArgs /\ ret = NoRet /\ Returned("pct", pct(args.y, args.yref))

NextDelta == CallPctDelta \/ CallPct

SpecDelta == InitDelta /\ [][NextDelta]_vars

(***************************************************************************)
(* Claims about the delta calculators (SpecDelta).                         *)
(***************************************************************************)
HasReturned == ret.fn # ""
FiniteNumber(v) == v.k = "num"

\* C3: whenever the reference is "no match" (null), NaN, an infinity or
\* exactly zero, either calculator returns the "unavailable" sentinel, and
\* the percentage formula (its division by the reference) is not evaluated.
C3_GuardedReferenceGivesSentinel ==
  (HasReturned /\ (args.yref = null \/ args.yref.k \in {"nan", "inf"}
                   \/ args.yref = Num(0)))
    => (ret.text = Unavailable /\ ~ret.evaluated)

\* a calculator has returned for a zero reference and a non-zero observed
\* value, the case in which the formula would divide by zero
C3_Witness ==
  HasReturned /\ ret.fn = "pctDelta" /\ args.yref = Num(0) /\ args.y = Num(110)

\* the text the spec asks for: the exact percentage, '+' when it is zero or
\* positive and '-' when negative, two decimals
SignedTwoDecimals(y, yref) ==
  LET p == Rat((y.n * yref.d - yref.n * y.d) * 100 * yref.d,
               y.d * yref.d * yref.n)
      hundredths == (2 * 100 * Abs(p.n) + p.d) \div (2 * p.d)
  IN  (IF p.n < 0 THEN "-" ELSE "+") \o NatStr(hundredths \div 100) \o "."
        \o Digit((hundredths \div 10) % 10) \o Digit(hundredths % 10) \o "%"

\* C4: for a finite observed value and a finite non-zero reference, both
\* calculators return (observed - reference) / reference * 100 with two
\* decimals and a leading sign, '+' for zero or positive and '-' for
\* negative: 110 vs 100 is "+10.00%", 90 vs 100 "-10.00%", 100 vs 100
\* "+0.00%".
C4_SignedTwoDecimalsBoth ==
  (HasReturned /\ FiniteNumber(args.y) /\ FiniteNumber(args.yref)
     /\ args.yref # Num(0))
    => /\ ret.text = SignedTwoDecimals(args.y, args.yref)
       /\ (args.y = Num(110) /\ args.yref = Num(100)) => ret.text = "+10.00%"
       /\ (args.y = Num(90) /\ args.yref = Num(100)) => ret.text = "-10.00%"
       /\ (args.y = Num(100) /\ args.yref = Num(100)) => ret.text = "+0.00%"

Char(s, i) == SubSeq(s, i, i)
Digits == {"0", "1", "2", "3", "4", "5", "6", "7", "8", "9"}

\* a leading sign, digits, a point, two digits, a percent sign
IsSignedPercentage(s) ==
  /\ Len(s) >= 6
  /\ Char(s, 1) \in {"+", "-"}
  /\ Char(s, Len(s)) = "%"
  /\ Char(s, Len(s) - 3) = "."
  /\ \A i \in 2..(Len(s) - 1) : i # Len(s) - 3 => Char(s, i) \in Digits

\* C9: for every observed value, a non-finite one included, and every
\* reference, the result is the sentinel or a signed finite percentage with
\* two decimals, never "NaN%" or "+Infinity%".
C9_SentinelOrFinitePercentage ==
  HasReturned => (ret.text = Unavailable \/ IsSignedPercentage(ret.text))

(***************************************************************************)
(* What the spec says of a lookup, stated on the rows of a source.         *)
(***************************************************************************)
\* a callback has run through to its readout
Queried == div.shown = "readout"

\* the candle under the cursor, for the addon
CandleAtCursor == candles[MathRound(ev.x) + 1]

\* the query the last callback ran with: its time and its observed value
QueryT    == IF impl = "plot" THEN ev.x ELSE CandleAtCursor.Date
ObservedY == IF impl = "plot" THEN ev.y ELSE CandleAtCursor.Close

\* the calculator of the running program
DeltaText(y, yref) == IF impl = "plot" THEN pct(y, yref).text ELSE pctDelta(y, yref).text

\* slope * timeMs + intercept
Projection(row, t) == Add(Mul(row.m, t), row.b)

\* the rows whose key is at or before t, and the latest of them
EligibleBy(src, t, key(_)) == {i \in 1..Len(src) : Le(Num(key(src[i])), t)}
LatestBy(src, t, key(_)) ==
  {i \in EligibleBy(src, t, key) :
     \A j \in EligibleBy(src, t, key) : key(src[j]) <= key(src[i])}

First(S) == CHOOSE i \in S : \A j \in S : i <= j

\* the reference of a query at t: the projection of the first of the latest
\* rows by `key', or null without an eligible row
ReferenceBy(src, t, key(_)) ==
  IF EligibleBy(src, t, key) = {} THEN null
  ELSE Projection(src[First(LatestBy(src, t, key))], t)

EndTimeMs(row)   == row.x_end
EndAnchorMs(row) == row.x1ms
LaterAnchorMs(row) == IF row.x0ms > row.x1ms THEN row.x0ms ELSE row.x1ms

\* the two sources, each with the local the callback computed from it
Lookups == {<<res_src, yRes>>, <<sup_src, ySup>>}

(***************************************************************************)
(* Claims about the lookup and the handler (Spec).                         *)
(***************************************************************************)
\* C1: a lookup at time t answers null exactly when no row has
\* endTimeMs <= t (the empty source and a t before every end included), and
\* otherwise projects a row whose endTimeMs is the greatest among those
\* <= t; a row with endTimeMs = t is eligible.
C1_MostRecentAtOrBefore ==
  Queried =>
    \A l \in Lookups :
      /\ (l[2] = null) <=> (EligibleBy(l[1], QueryT, EndTimeMs) = {})
      /\ EligibleBy(l[1], QueryT, EndTimeMs) # {}
           => \E i \in LatestBy(l[1], QueryT, EndTimeMs) :
                l[2] = Projection(l[1][i], QueryT)

\* a query exactly at the end of a resistance row found it, while the
\* support source was empty and answered null
C1_Witness ==
  /\ Queried
  /\ \E i \in 1..Len(res_src) : Num(res_src[i].x_end) = QueryT
  /\ yRes # null
  /\ sup_src = <<>> /\ ySup = null

\* C10: among rows that share the greatest endTimeMs <= t, the lookup
\* projects the one that comes first in the source (a later row replaces
\* the best only with a strictly greater endTimeMs), so a query is answered
\* from the index and the time alone.
C10_FirstOfTiedWins ==
  Queried =>
    \A l \in Lookups : l[2] = ReferenceBy(l[1], QueryT, EndTimeMs)

\* two resistance rows tie for the latest end and project differently, and
\* the first one was used
C10_Witness ==
  /\ Queried
  /\ \E i, j \in LatestBy(res_src, QueryT, EndTimeMs) :
       /\ i < j
       /\ Projection(res_src[i], QueryT) # Projection(res_src[j], QueryT)
       /\ yRes = Projection(res_src[i], QueryT)

\* the end-to-end scenario of the spec: the latest resistance row ends at
\* 100 and projects to 50, the latest support row ends at 90 and projects to
\* 40, the query is at 105 with 52 observed
Scenario ==
  /\ QueryT = Num(105) /\ ObservedY = Num(52)
  /\ LatestBy(res_src, QueryT, EndTimeMs) # {}
  /\ \A i \in LatestBy(res_src, QueryT, EndTimeMs) :
       res_src[i].x_end = 100 /\ Projection(res_src[i], QueryT) = Num(50)
  /\ LatestBy(sup_src, QueryT, EndTimeMs) # {}
  /\ \A i \in LatestBy(sup_src, QueryT, EndTimeMs) :
       sup_src[i].x_end = 90 /\ Projection(sup_src[i], QueryT) = Num(40)

\* C5: the resistance readout is the calculator applied to the observed
\* value and the projection of the most recent resistance row at the query
\* time (the sentinel without one), the support readout the same from the
\* support rows alone; in the scenario above they read "+4.00%" and
\* "+30.00%".
C5_ReadoutPerCategory ==
  Queried =>
    /\ div.res = DeltaText(ObservedY, ReferenceBy(res_src, QueryT, EndTimeMs))
    /\ div.sup = DeltaText(ObservedY, ReferenceBy(sup_src, QueryT, EndTimeMs))
    /\ Scenario => (div.res = "+4.00%" /\ div.sup = "+30.00%")

C5_Witness == Queried /\ Scenario /\ div.res = "+4.00%" /\ div.sup = "+30.00%"

\* C7: the lookup is decided by the time of each row's end anchor alone:
\* it projects the first of the rows with the greatest end-anchor time <= t,
\* rows whose start anchor is later than their end anchor included.
C7_KeyIsEndAnchorTime ==
  Queried =>
    \A l \in Lookups : l[2] = ReferenceBy(l[1], QueryT, EndAnchorMs)

\* C7, amended: the lookup is decided by the later of each row's two anchor
\* times; that is the end anchor's time, whatever the start anchor's, for
\* every row whose start anchor is not later than its end anchor.
C7_KeyIsLaterAnchorTime ==
  Queried =>
    \A l \in Lookups :
      /\ l[2] = ReferenceBy(l[1], QueryT, LaterAnchorMs)
      /\ (\A i \in 1..Len(l[1]) : l[1][i].x0ms <= l[1][i].x1ms)
           => l[2] = ReferenceBy(l[1], QueryT, EndAnchorMs)

\* a resistance row given end first: the query falls at or after its end
\* anchor and before its start anchor, and the row is not used
C7_Witness ==
  /\ Queried
  /\ Len(res_src) = 1
  /\ res_src[1].x0ms > res_src[1].x1ms
  /\ Le(Num(res_src[1].x1ms), QueryT) /\ Lt(QueryT, Num(res_src[1].x0ms))
  /\ yRes = null

(***************************************************************************)
(* Claims about the build (SpecCompile).                                   *)
(***************************************************************************)
WellFormed(tl) ==
  tl.x0.ok /\ tl.x1.ok /\ tl.y0.k = "num" /\ tl.y1.k = "num"
Degenerate(tl) == _to_ms(tl.x0) = _to_ms(tl.x1)
Anchors(tl)    == <<_to_ms(tl.x0), tl.y0, _to_ms(tl.x1), tl.y1>>
RowAnchors(r)  == <<r.x0ms, r.y0, r.x1ms, r.y1>>
Source(kind)   == IF kind = "res" THEN res_src ELSE sup_src

\* the rows of a source are the anchors of these raw lines, in order
RowsAre(kind, lines) ==
  /\ Len(Source(kind)) = Len(lines)
  /\ \A i \in 1..Len(lines) : RowAnchors(Source(kind)[i]) = Anchors(lines[i])

\* C2: of a list of raw lines the build keeps exactly those whose anchors
\* fall on different milliseconds, in input order, and drops exactly the
\* others without an error: compiled <= raw, the difference is the number
\* of degenerate lines, and no row has x0ms = x1ms.
C2_DropsExactlyDegenerate ==
  (pc # "start" /\ \A i \in 1..Len(trendlines) : WellFormed(trendlines[i]))
    => /\ pc = "built"
       /\ \A kind \in Kinds :
            LET raw == OfKind(trendlines, kind) IN
            /\ RowsAre(kind, SelectSeq(raw, LAMBDA tl : ~Degenerate(tl)))
            /\ Len(Source(kind)) <= Len(raw)
            /\ Len(raw) - Len(Source(kind))
                 = Cardinality({i \in 1..Len(raw) : Degenerate(raw[i])})
            /\ \A i \in 1..Len(Source(kind)) :
                 Source(kind)[i].x0ms # Source(kind)[i].x1ms

\* a list of a line whose two different timestamps share a millisecond and
\* a proper line was built: one row
C2_Witness ==
  /\ pc = "built"
  /\ Len(trendlines) = 2
  /\ \A i \in 1..2 : WellFormed(trendlines[i]) /\ trendlines[i].kind = "res"
  /\ trendlines[1].x0 # trendlines[1].x1 /\ Degenerate(trendlines[1])
  /\ Len(res_src) = 1

\* C6: every row has slope (y1 - y0) / (x1ms - x0ms) and intercept
\* y0 - slope * x0ms, and its line gives y0 at x0ms and y1 at x1ms, in
\* exact arithmetic.
C6_LineThroughAnchors ==
  pc = "built" =>
    \A kind \in Kinds : \A i \in 1..Len(Source(kind)) :
      LET r == Source(kind)[i] IN
      /\ r.m = Div(Sub(r.y1, r.y0), Num(r.x1ms - r.x0ms))
      /\ r.b = Sub(r.y0, Mul(r.m, Num(r.x0ms)))
      /\ Projection(r, Num(r.x0ms)) = r.y0
      /\ Projection(r, Num(r.x1ms)) = r.y1

\* a built row with a slope that is not zero
C6_Witness ==
  pc = "built" /\ \E i \in 1..Len(sup_src) : sup_src[i].m # Num(0)

\* C8: a raw line with a timestamp or a price that does not convert is
\* left out, every other line is compiled, and the build does not raise.
C8_MalformedLineExcluded ==
  pc # "start"
    => /\ pc = "built"
       /\ \A kind \in Kinds :
            RowsAre(kind, SelectSeq(OfKind(trendlines, kind),
                                    LAMBDA tl : WellFormed(tl) /\ ~Degenerate(tl)))

(***************************************************************************)
(* Claims about the handler over a run of events (Spec).                   *)
(***************************************************************************)
\* the integer nearest to x, the larger of two equally near
NearestInteger(x) ==
  CHOOSE i \in -2..(Len(CandleMs) + 2) :
    2 * i * x.d - x.d <= 2 * x.n /\ 2 * x.n < 2 * i * x.d + x.d

\* the readout of a query at time t with y observed, from the two sources
\* as they are
ReadoutOf(t, y, closeText) ==
  [shown |-> "readout", close |-> closeText,
   res |-> DeltaText(y, ReferenceBy(res_src, t, EndTimeMs)),
   sup |-> DeltaText(y, ReferenceBy(sup_src, t, EndTimeMs))]

\* the payload that the sources, the candles and one event determine
PayloadFor(e) ==
  IF impl = "plot" THEN ReadoutOf(e.x, e.y, "")
  ELSE LET i == NearestInteger(e.x) IN
       IF i < 0 \/ i >= Len(candles) THEN Placeholder
       ELSE ReadoutOf(candles[i + 1].Date, candles[i + 1].Close,
                      toFixed2(candles[i + 1].Close))

\* C11: what the panel shows after an event is determined by the two
\* sources (and the candles) and that event alone, whatever events were
\* handled before it: two runs with the same indexes that receive the same
\* event show the same payload.
C11_PayloadDeterminedByIndexesAndEvent ==
  handled > 0 => div = PayloadFor(ev)

\* a readout with a percentage in it, shown after at least two events
C11_Witness ==
  /\ handled >= 2 /\ Queried
  /\ div.res # Unavailable /\ div.sup # Unavailable

\* C12: once built, the two sources and the candle data never change: an
\* event changes the panel (and the callback's own event and locals) and
\* nothing else, so after any run of events the sources are the ones the
\* build produced.
C12_EventsLeaveIndexesAlone ==
  [][pc = "built" => UNCHANGED <<res_src, sup_src, candles, trendlines, impl, pc>>]_vars

\* at least two events have been handled over sources with rows in them
C12_Witness ==
  handled >= 2 /\ Queried /\ res_src # <<>> /\ sup_src # <<>>

\* C13: the addon's callback takes the candle at index round(cursor x).
\* Off the candles (index < 0 or >= their number) the panel is reset to the
\* placeholder and neither lookup runs; on a candle the query time is the
\* candle's Date and the observed value its Close, whatever the cursor's y.
C13_QueryIsTheCandleUnderCursor ==
  (impl = "addon" /\ handled > 0) =>
    LET i == NearestInteger(ev.x) IN
    IF i < 0 \/ i >= Len(candles)
    THEN div = Placeholder /\ yRes = undefined /\ ySup = undefined
    ELSE LET c == candles[i + 1] IN
         /\ yRes = ReferenceBy(res_src, c.Date, EndTimeMs)
         /\ ySup = ReferenceBy(sup_src, c.Date, EndTimeMs)
         /\ div = [shown |-> "readout", close |-> toFixed2(c.Close),
                   res |-> pctDelta(c.Close, yRes).text,
                   sup |-> pctDelta(c.Close, ySup).text]

\* after an earlier event the cursor is past the last candle: the panel
\* shows the placeholder and no lookup ran
C13_Witness ==
  /\ impl = "addon" /\ handled >= 2
  /\ MathRound(ev.x) >= Len(candles)
  /\ res_src # <<>>
  /\ div = Placeholder /\ yRes = undefined

====
